---- MODULE Spec2Model ----
(***************************************************************************)
(* Model of thirsty/core.py: the bounding box of a GPX track, the          *)
(* recursive planner of Overpass query cells, the deduplication of the     *)
(* returned POIs and the proximity filter, sequenced by                    *)
(* process_gpx_and_pois.                                                   *)
(*                                                                         *)
(* Units.  Coordinates are exact rationals counted in grid units of        *)
(* 890/111320 degree.  With that unit the code's flat conversion           *)
(* APPROX_DEGREES_PER_METER = 1/111320 makes one unit exactly 890 "flat"   *)
(* metres, and haversine's R = 6371000 makes one unit of latitude          *)
(* R * pi/180 * 890/111320 = 889.00002 metres, taken as 889.  Areas        *)
(* (max_bbox_area_sq_deg) are counted in square grid units.                *)
(*                                                                         *)
(* haversine is modelled by its small-angle form                           *)
(*   R * sqrt(dphi^2 + cos(phi1) * cos(phi2) * dlambda^2),                 *)
(* which differs from the code's value by a relative 1e-7 at the few       *)
(* kilometres the model spans; cos(phi1) * cos(phi2) is the squared cosine *)
(* of the latitude band the track lies in (0 or 60 degrees), kept as the   *)
(* integer 4 * cos^2.  All comparisons are made on squares, so no root is  *)
(* taken.                                                                  *)
(***************************************************************************)
EXTENDS Integers, Sequences, FiniteSets, TLC

VARIABLES
    pc,                    \* position in process_gpx_and_pois
    gpx,                   \* the parsed track: sequence of points [lat, lon]
    lat_band,              \* latitude band of the track: 4 * cos^2(latitude)
    poi_types,             \* argument poi_types
    max_distance_m,        \* argument max_distance_m
    max_bbox_area_sq_deg,  \* argument max_bbox_area_sq_deg (square grid units)
    lat_divisions,         \* argument lat_divisions
    lon_divisions,         \* argument lon_divisions
    show_bboxes,           \* argument show_bboxes
    bounds,                \* local bounds (get_bounds' result)
    plan,                  \* get_relevant_bboxes' outcome: cells, depth, error
    bboxes,                \* local bboxes
    collected_bboxes,      \* local collected_bboxes
    cell,                  \* number of cells already dispatched
    requests,              \* number of requests.post calls made
    calls,                 \* the calls of query_overpass made, in order
    pois,                  \* local pois (raw accumulation)
    deduplicated_pois,     \* local deduplicated_pois
    filtered_pois,         \* local filtered_pois
    result,                \* the returned (filtered_pois, collected_bboxes)
    error                  \* the exception process_gpx_and_pois raised, or "none"

vars == <<pc, gpx, lat_band, poi_types, max_distance_m, max_bbox_area_sq_deg,
          lat_divisions, lon_divisions, show_bboxes, bounds, plan, bboxes,
          collected_bboxes, cell, requests, calls, pois, deduplicated_pois,
          filtered_pois, result, error>>

-----------------------------------------------------------------------------
(* Bounds of the model *)

\* Track points and POIs lie on the grid 0..GridMax x 0..GridMax (grid units).
GridMax == 2
\* Longest track of the planner's and of the filter's specification.
MaxTrackLen == 2
\* Longest POI list given to deduplicate_pois_by_id on its own.
MaxPois == 3
\* Longest POI list given to filter_pois_near_track on its own.
MaxFilterPois == 1
\* Largest lat_divisions / lon_divisions.
MaxDiv == 3
\* Largest Overpass identifier.
MaxId == 2
\* Most raw POIs the Overpass collaborator returns over one run.
MaxRaw == 2
\* Stand-in for the interpreter's recursion limit (sys.getrecursionlimit()).
MaxDepth == 5

-----------------------------------------------------------------------------
(* Constants of the program *)

\* 111320 * (890/111320): flat metres per grid unit (APPROX_DEGREES_PER_METER).
FlatMetersPerUnit == 890
\* 6371000 * pi/180 * (890/111320), rounded: haversine metres per grid unit.
HavMetersPerUnit == 889
\* poi.get('id') of a record without an 'id' key.
NoId == 0
\* 4 * cos^2(latitude) of the two latitude bands: 0 and 60 degrees.
Equator == 4
Lat60 == 1

AMENITIES == {"water", "point", "tap", "spring", "fountain", "bakery", "cafe",
              "fuel_convenience", "convenience_store", "pizza_vending"}

\* Python's None for an optional list, and a list that is present.
None == [is_none |-> TRUE, list |-> <<>>]
Some(l) == [is_none |-> FALSE, list |-> l]

Pt(lat, lon) == [lat |-> lat, lon |-> lon]
Grid == {Pt(a, b) : a \in 0..GridMax, b \in 0..GridMax}

\* All sequences over S of length lo..hi.
SeqsOf(S, lo, hi) == UNION {[1..n -> S] : n \in lo..hi}

Range(s) == {s[i] : i \in DOMAIN s}

\* The tracks of a whole run: none, one point, two points.
RunTracks == {<<>>, <<Pt(0, 0)>>, <<Pt(0, 0), Pt(GridMax, GridMax)>>,
              <<Pt(1, GridMax), Pt(1, 0)>>}

\* The records the Overpass collaborator may return in a run.
RawPois == {[id |-> i, lat |-> a, lon |-> 0] : i \in 0..MaxId, a \in 0..1}

-----------------------------------------------------------------------------
(* deduplicate_pois_by_id *)

RECURSIVE DedupLoop(_, _, _, _)
DedupLoop(ps, i, seen_ids, unique_pois) ==
    IF i > Len(ps) THEN unique_pois
    ELSE LET poi_id == ps[i].id IN
         IF poi_id # NoId /\ poi_id \notin seen_ids
         THEN DedupLoop(ps, i + 1, seen_ids \cup {poi_id}, Append(unique_pois, ps[i]))
         ELSE DedupLoop(ps, i + 1, seen_ids, unique_pois)

\* Mutant: the identifier is never recorded as seen.
RECURSIVE DedupLoopForgets(_, _, _, _)
DedupLoopForgets(ps, i, seen_ids, unique_pois) ==
    IF i > Len(ps) THEN unique_pois
    ELSE LET poi_id == ps[i].id IN
         IF poi_id # NoId /\ poi_id \notin seen_ids
         THEN DedupLoopForgets(ps, i + 1, seen_ids, Append(unique_pois, ps[i]))
         ELSE DedupLoopForgets(ps, i + 1, seen_ids, unique_pois)

dedup_forgets_seen(ps) == DedupLoopForgets(ps, 1, {}, <<>>)

\* Mutant: a record without identifier is treated like any other.
RECURSIVE DedupLoopKeepsNone(_, _, _, _)
DedupLoopKeepsNone(ps, i, seen_ids, unique_pois) ==
    IF i > Len(ps) THEN unique_pois
    ELSE LET poi_id == ps[i].id IN
         IF poi_id \notin seen_ids
         THEN DedupLoopKeepsNone(ps, i + 1, seen_ids \cup {poi_id}, Append(unique_pois, ps[i]))
         ELSE DedupLoopKeepsNone(ps, i + 1, seen_ids, unique_pois)

dedup_keeps_none(ps) == DedupLoopKeepsNone(ps, 1, {}, <<>>)

deduplicate_pois_by_id(ps) == DedupLoop(ps, 1, {}, <<>>)

-----------------------------------------------------------------------------
(* haversine and filter_pois_near_track *)

\* Squared distance in grid units as the KDTree measures it: raw degrees.
FlatSq(p, q) == (p.lat - q.lat) * (p.lat - q.lat) + (p.lon - q.lon) * (p.lon - q.lon)

\* 4 * haversine(p, q)^2 in square metres, in latitude band band.
HaversineSq4(p, q, band) ==
    HavMetersPerUnit * HavMetersPerUnit
      * (4 * (p.lat - q.lat) * (p.lat - q.lat) + band * (p.lon - q.lon) * (p.lon - q.lon))

\* Mutant: the comparison is <= instead of <.
HaversineLessOrEqual(p, q, band, d) == d >= 0 /\ HaversineSq4(p, q, band) <= 4 * d * d

\* haversine(p, q) < d
HaversineLess(p, q, band, d) == d > 0 /\ HaversineSq4(p, q, band) < 4 * d * d

\* kdtree.query_ball_point(center, r) with r = d * (1/111320) * 1.5 degrees
\* = 3 * d / (2 * 890) grid units: the indices within Euclidean distance r.
QueryBallMeters(coords, center, d) ==
    {i \in DOMAIN coords :
        d >= 0 /\ 4 * FlatMetersPerUnit * FlatMetersPerUnit * FlatSq(coords[i], center)
                    <= 9 * d * d}

RECURSIVE NearbyLoopNoBreak(_, _, _, _, _, _, _)
NearbyLoopNoBreak(coords, indices_in_range, poi, band, max_d, idx, nearby_pois) ==
    IF idx > Len(coords) THEN nearby_pois
    ELSE NearbyLoopNoBreak(coords, indices_in_range, poi, band,
            max_d, idx + 1,
            IF /\ idx \in indices_in_range
               /\ HaversineLess(poi, coords[idx], band, max_d)
            THEN Append(nearby_pois, poi) ELSE nearby_pois)

\* The loop "for idx in indices_in_range" for one poi, from index idx on:
\* the first index of the query result with haversine < max_distance_m
\* appends poi to nearby_pois and ends the loop (break).  The indices are
\* taken in increasing order; query_ball_point fixes no order, and with the
\* break the list that results is the same in every order.
RECURSIVE NearbyLoop(_, _, _, _, _, _, _)
NearbyLoop(coords, indices_in_range, poi, band, max_d, idx, nearby_pois) ==
    IF idx > Len(coords) THEN nearby_pois
    ELSE IF /\ idx \in indices_in_range
            /\ HaversineLess(poi, coords[idx], band, max_d)
         THEN Append(nearby_pois, poi)
         ELSE NearbyLoop(coords, indices_in_range, poi, band,
                         max_d, idx + 1, nearby_pois)

\* The loop "for poi in pois", from the i-th POI on.
RECURSIVE FilterLoop(_, _, _, _, _, _)
FilterLoop(track_points_coords, band, ps, max_d, i, nearby_pois) ==
    IF i > Len(ps) THEN nearby_pois
    ELSE LET indices_in_range ==
                 QueryBallMeters(track_points_coords,
                                 Pt(ps[i].lat, ps[i].lon), max_d)
         IN FilterLoop(track_points_coords, band, ps, max_d, i + 1,
                       NearbyLoop(track_points_coords, indices_in_range, ps[i],
                                  band, max_d, 1, nearby_pois))

filter_pois_near_track(track_points_coords, band, ps, max_d) ==
    FilterLoop(track_points_coords, band, ps, max_d, 1, <<>>)

-----------------------------------------------------------------------------
(* Exact arithmetic on bounding boxes *)

\* A bbox (south, west, north, east) is kept as four integers over one
\* positive denominator, in lowest terms: south = b.south / b.den grid units.
\* Python computes on doubles; the model computes the same expressions
\* exactly, so it leaves out the rounding of each operation.

Abs(x) == IF x < 0 THEN -x ELSE x

RECURSIVE GCD(_, _)
GCD(a, b) == IF b = 0 THEN a ELSE GCD(b, a % b)

Normalize(b) ==
    LET g == GCD(GCD(GCD(GCD(b.den, Abs(b.south)), Abs(b.west)), Abs(b.north)), Abs(b.east))
    IN [south |-> b.south \div g, west |-> b.west \div g,
        north |-> b.north \div g, east |-> b.east \div g, den |-> b.den \div g]

\* min / max over the points of the track
MinOf(S) == CHOOSE x \in S : \A y \in S : x <= y
MaxOf(S) == CHOOSE x \in S : \A y \in S : x >= y

\* 10000 * x <= 14641 * y for naturals x, y, computed without leaving 32 bits
\* (14641/10000 = 1.1^4).
Leq14641(x, y) ==
    LET d == x - y
        q == y \div 10000
        r == y % 10000
        e == d - 4641 * q
    IN IF d <= 0 THEN TRUE
       ELSE IF e <= 0 THEN TRUE
       ELSE IF e > 4641 THEN FALSE
       ELSE 10000 * e <= 4641 * r

-----------------------------------------------------------------------------
(* get_bounds *)

\* angular_margin = max_distance_m * (1/111320) * 1.5 degrees
\*                = 3 * max_distance_m / (2 * 890) grid units.
get_bounds(points, max_d) ==
    IF Len(points) = 0 THEN None
    ELSE LET den == 2 * FlatMetersPerUnit
             min_lat == MinOf({points[i].lat : i \in DOMAIN points})
             max_lat == MaxOf({points[i].lat : i \in DOMAIN points})
             min_lon == MinOf({points[i].lon : i \in DOMAIN points})
             max_lon == MaxOf({points[i].lon : i \in DOMAIN points})
         IN Some(Normalize([south |-> den * min_lat - 3 * max_d,
                            west  |-> den * min_lon - 3 * max_d,
                            north |-> den * max_lat + 3 * max_d,
                            east  |-> den * max_lon + 3 * max_d,
                            den   |-> den]))

-----------------------------------------------------------------------------
(* _subdivide_bbox *)

\* Called with lat_div # 0 and lon_div # 0 (a zero raises ZeroDivisionError
\* at the division, see get_relevant_bboxes).  range() of a negative number
\* is empty, so a negative division count yields no sub-box.
SubBox(bbox, lat_div, lon_div, i, j) ==
    Normalize([south |-> (bbox.south * lat_div + i * (bbox.north - bbox.south)) * lon_div,
               north |-> (bbox.south * lat_div + (i + 1) * (bbox.north - bbox.south)) * lon_div,
               west  |-> (bbox.west * lon_div + j * (bbox.east - bbox.west)) * lat_div,
               east  |-> (bbox.west * lon_div + (j + 1) * (bbox.east - bbox.west)) * lat_div,
               den   |-> bbox.den * lat_div * lon_div])

\* Mutant: the last row of the grid is left out (range(lat_divisions - 1)).
subdivide_bbox_short(bbox, lat_div, lon_div) ==
    IF lat_div < 1 \/ lon_div < 1 THEN <<>>
    ELSE [k \in 1..((lat_div - 1) * lon_div) |->
            SubBox(bbox, lat_div, lon_div, (k - 1) \div lon_div, (k - 1) % lon_div)]

\* Mutant: the sub-boxes are not made smaller.
subdivide_bbox_same(bbox, lat_div, lon_div) ==
    IF lat_div < 1 \/ lon_div < 1 THEN <<>>
    ELSE [k \in 1..(lat_div * lon_div) |-> bbox]

subdivide_bbox(bbox, lat_div, lon_div) ==
    IF lat_div < 1 \/ lon_div < 1 THEN <<>>
    ELSE [k \in 1..(lat_div * lon_div) |->
            SubBox(bbox, lat_div, lon_div, (k - 1) \div lon_div, (k - 1) % lon_div)]

-----------------------------------------------------------------------------
(* _bbox_contains_gpx_points *)

\* Whether gpx_kdtree.query_ball_point([center_lat, center_lon], r) returns
\* the point p, with r = 1.1 * sqrt(diagonal_lat^2 + diagonal_lon^2) / 2, the
\* diagonals being those of the dilated box: 1.1 * (north - south) and
\* 1.1 * (east - west).  Doubled and squared, in units of 1/den:
\*   (2 lat - south - north)^2 + (2 lon - west - east)^2
\*      <= 1.1^4 * ((north - south)^2 + (east - west)^2).
InQueryBall(bbox, p) ==
    LET a == 2 * p.lat * bbox.den - bbox.south - bbox.north
        b == 2 * p.lon * bbox.den - bbox.west - bbox.east
        h == bbox.north - bbox.south
        w == bbox.east - bbox.west
    IN Leq14641(a * a + b * b, h * h + w * w)

\* dilated_south <= lat <= dilated_north and dilated_west <= lon <= dilated_east,
\* the margins being 0.05 of the height and width: all sides times 20.
InDilated(bbox, p) ==
    LET h == bbox.north - bbox.south
        w == bbox.east - bbox.west
    IN /\ 20 * bbox.south - h <= 20 * p.lat * bbox.den
       /\ 20 * p.lat * bbox.den <= 20 * bbox.north + h
       /\ 20 * bbox.west - w <= 20 * p.lon * bbox.den
       /\ 20 * p.lon * bbox.den <= 20 * bbox.east + w

bbox_contains_ball_only(bbox, coords) ==
    \E idx \in DOMAIN coords : InQueryBall(bbox, coords[idx])

\* True when some index that query_ball_point returns is a point of the
\* dilated box.  The two tests are a conjunction; the linear one is written
\* first so that the squares are taken only of offsets within the box.
bbox_contains_gpx_points(bbox, coords) ==
    \E idx \in DOMAIN coords :
        InDilated(bbox, coords[idx]) /\ InQueryBall(bbox, coords[idx])

-----------------------------------------------------------------------------
(* get_relevant_bboxes *)

\* current_bbox_area <= max_bbox_area_sq_deg
AreaWithin(bbox, max_area) ==
    (bbox.north - bbox.south) * (bbox.east - bbox.west) <= max_area * bbox.den * bbox.den

\* The outcome of a call: the exception it raised ("none" when it returned),
\* the list it returned, the deepest recursion level it reached, and the
\* regions it passed to _subdivide_bbox, in the order of the calls.
PlanOk(cells, depth) ==
    [err |-> "none", cells |-> cells, depth |-> depth, split |-> <<>>]
PlanRaise(e, depth) ==
    [err |-> e, cells |-> <<>>, depth |-> depth, split |-> <<>>]
WithSplit(r, regions) == [r EXCEPT !.split = regions]

RECURSIVE get_relevant_bboxes(_, _, _, _, _, _)
RECURSIVE ExtendEach(_, _, _, _, _, _, _, _)

\* The loop "for sub_bbox in sub_bboxes: bboxes.extend(...)": acc is the
\* outcome so far, k the next sub-box.  An exception of a recursive call
\* ends the loop.
ExtendEach(sub_bboxes, k, acc, coords, max_area, lat_div, lon_div, depth) ==
    IF k > Len(sub_bboxes) \/ acc.err # "none" THEN acc
    ELSE LET r == get_relevant_bboxes(sub_bboxes[k], coords, max_area,
                                      lat_div, lon_div, depth + 1)
             d == IF r.depth > acc.depth THEN r.depth ELSE acc.depth
         IN ExtendEach(sub_bboxes, k + 1,
                       WithSplit(IF r.err # "none" THEN PlanRaise(r.err, d)
                                 ELSE PlanOk(acc.cells \o r.cells, d),
                                 acc.split \o r.split),
                       coords, max_area, lat_div, lon_div, depth)

\* depth counts the nested calls; a call nested deeper than the recursion
\* limit raises RecursionError.
get_relevant_bboxes(bbox, coords, max_area, lat_div, lon_div, depth) ==
    IF depth > MaxDepth THEN PlanRaise("RecursionError", depth)
    ELSE IF ~bbox_contains_gpx_points(bbox, coords) THEN PlanOk(<<>>, depth)
    ELSE IF AreaWithin(bbox, max_area) THEN PlanOk(<<bbox>>, depth)
    ELSE IF lat_div = 0 \/ lon_div = 0 THEN PlanRaise("ZeroDivisionError", depth)
    ELSE ExtendEach(subdivide_bbox(bbox, lat_div, lon_div), 1,
                    WithSplit(PlanOk(<<>>, depth), <<bbox>>),
                    coords, max_area, lat_div, lon_div, depth)

-----------------------------------------------------------------------------
(* query_overpass: the part that decides whether requests.post is reached *)

\* AMENITIES[poi_type] raises KeyError for a type outside the catalog, while
\* the query text is built, before requests.post.
KnownTypes(types) == \A i \in DOMAIN types : types[i] \in AMENITIES

-----------------------------------------------------------------------------
(* process_gpx_and_pois *)

NoResult == [returned |-> FALSE, pois |-> <<>>, bboxes |-> None]
Returned(ps, bs) == [returned |-> TRUE, pois |-> ps, bboxes |-> bs]
NoPlan == PlanOk(<<>>, 0)

Poi(id, lat, lon) == [id |-> id, lat |-> lat, lon |-> lon]

\* The planning of the run: get_relevant_bboxes on the root region.
Planned ==
    get_relevant_bboxes(get_bounds(gpx, max_distance_m).list, gpx,
                        max_bbox_area_sq_deg, lat_divisions, lon_divisions, 0)

\* Mutant: bounds is not tested against None, and unpacking it raises.
BeginEmptyUnpacksNone ==
    /\ pc = "start"
    /\ get_bounds(gpx, max_distance_m).is_none
    /\ bounds' = None
    /\ error' = "TypeError"
    /\ pc' = "failed"
    /\ UNCHANGED <<calls, gpx, lat_band, poi_types, max_distance_m, max_bbox_area_sq_deg,
                   lat_divisions, lon_divisions, show_bboxes, plan, bboxes,
                   collected_bboxes, cell, requests, pois, deduplicated_pois,
                   filtered_pois, result>>

\* Lines 519-528: the track has no point; bounds is None.
BeginEmpty ==
    /\ pc = "start"
    /\ get_bounds(gpx, max_distance_m).is_none
    /\ bounds' = None
    /\ result' = Returned(<<>>, Some(<<>>))
    /\ pc' = "done"
    /\ UNCHANGED <<calls, gpx, lat_band, poi_types, max_distance_m, max_bbox_area_sq_deg,
                   lat_divisions, lon_divisions, show_bboxes, plan, bboxes,
                   collected_bboxes, cell, requests, pois, deduplicated_pois,
                   filtered_pois, error>>

\* Mutant: the cells are collected whatever show_bboxes is.
BeginPlanAlwaysCollects ==
    /\ pc = "start"
    /\ ~get_bounds(gpx, max_distance_m).is_none
    /\ \E planned \in {Planned} :
          /\ planned.err = "none"
          /\ plan' = planned
          /\ bboxes' = planned.cells
          /\ collected_bboxes' = Some(planned.cells)
          /\ pc' = IF Len(planned.cells) = 0 THEN "dedup" ELSE "query"
    /\ bounds' = get_bounds(gpx, max_distance_m)
    /\ pois' = <<>>
    /\ cell' = 0
    /\ UNCHANGED <<calls, gpx, lat_band, poi_types, max_distance_m, max_bbox_area_sq_deg,
                   lat_divisions, lon_divisions, show_bboxes, requests,
                   deduplicated_pois, filtered_pois, result, error>>

\* Lines 519-566: bounds, KDTree, planning, collected_bboxes, pois = [].
BeginPlan ==
    /\ pc = "start"
    /\ ~get_bounds(gpx, max_distance_m).is_none
    /\ \E planned \in {Planned} :
          /\ planned.err = "none"
          /\ plan' = planned
          /\ bboxes' = planned.cells
          /\ collected_bboxes' = IF show_bboxes THEN Some(planned.cells) ELSE None
          /\ pc' = IF Len(planned.cells) = 0 THEN "dedup" ELSE "query"
    /\ bounds' = get_bounds(gpx, max_distance_m)
    /\ pois' = <<>>
    /\ cell' = 0
    /\ UNCHANGED <<calls, gpx, lat_band, poi_types, max_distance_m, max_bbox_area_sq_deg,
                   lat_divisions, lon_divisions, show_bboxes, requests,
                   deduplicated_pois, filtered_pois, result, error>>

\* Lines 549-556: get_relevant_bboxes raises; nothing catches it.
BeginRaise ==
    /\ pc = "start"
    /\ ~get_bounds(gpx, max_distance_m).is_none
    /\ \E planned \in {Planned} :
          /\ planned.err # "none"
          /\ plan' = planned
          /\ error' = planned.err
    /\ bounds' = get_bounds(gpx, max_distance_m)
    /\ pc' = "failed"
    /\ UNCHANGED <<calls, gpx, lat_band, poi_types, max_distance_m, max_bbox_area_sq_deg,
                   lat_divisions, lon_divisions, show_bboxes, bboxes,
                   collected_bboxes, cell, requests, pois, deduplicated_pois,
                   filtered_pois, result>>

\* One call query_overpass(bbox, poi_types, gpx_kdtree) of line 568: its
\* argument and whether it returned.
Call(bbox, returned) == [bbox |-> bbox, returned |-> returned]

QueryOkOutOfOrder ==
    /\ pc = "query"
    /\ cell < Len(bboxes)
    /\ KnownTypes(poi_types)
    /\ \E elements \in SeqsOf(RawPois, 0, 1) :
          /\ Len(pois) + Len(elements) <= MaxRaw
          /\ pois' = pois \o elements
          /\ calls' = Append(calls, Call(bboxes[Len(bboxes) - cell], TRUE))
    /\ requests' = requests + 1
    /\ cell' = cell + 1
    /\ pc' = IF cell + 1 = Len(bboxes) THEN "dedup" ELSE "query"
    /\ UNCHANGED <<gpx, lat_band, poi_types, max_distance_m, max_bbox_area_sq_deg,
                   lat_divisions, lon_divisions, show_bboxes, bounds, plan, bboxes,
                   collected_bboxes, deduplicated_pois, filtered_pois, result, error>>

\* Lines 567-568 with query_overpass returning elements for the next cell.
QueryOk ==
    /\ pc = "query"
    /\ cell < Len(bboxes)
    /\ KnownTypes(poi_types)
    /\ \E elements \in SeqsOf(RawPois, 0, 1) :
          /\ Len(pois) + Len(elements) <= MaxRaw
          /\ pois' = pois \o elements
          /\ calls' = Append(calls, Call(bboxes[cell + 1], TRUE))
    /\ requests' = requests + 1
    /\ cell' = cell + 1
    /\ pc' = IF cell + 1 = Len(bboxes) THEN "dedup" ELSE "query"
    /\ UNCHANGED <<gpx, lat_band, poi_types, max_distance_m, max_bbox_area_sq_deg,
                   lat_divisions, lon_divisions, show_bboxes, bounds, plan, bboxes,
                   collected_bboxes, deduplicated_pois, filtered_pois, result, error>>

\* Mutant: the except clause logs the failure and the loop goes on with the
\* next cell.
QueryFailSkipsCell ==
    /\ pc = "query"
    /\ cell < Len(bboxes)
    /\ KnownTypes(poi_types)
    /\ requests' = requests + 1
    /\ calls' = Append(calls, Call(bboxes[cell + 1], FALSE))
    /\ error' = "RequestException"
    /\ cell' = cell + 1
    /\ pc' = IF cell + 1 = Len(bboxes) THEN "dedup" ELSE "query"
    /\ UNCHANGED <<gpx, lat_band, poi_types, max_distance_m, max_bbox_area_sq_deg,
                   lat_divisions, lon_divisions, show_bboxes, bounds, plan, bboxes,
                   collected_bboxes, pois, deduplicated_pois, filtered_pois,
                   result>>

\* Lines 343-351: requests.post or raise_for_status raises; query_overpass
\* re-raises and process_gpx_and_pois does not catch.
QueryFail ==
    /\ pc = "query"
    /\ cell < Len(bboxes)
    /\ KnownTypes(poi_types)
    /\ requests' = requests + 1
    /\ calls' = Append(calls, Call(bboxes[cell + 1], FALSE))
    /\ error' = "RequestException"
    /\ pc' = "failed"
    /\ UNCHANGED <<gpx, lat_band, poi_types, max_distance_m, max_bbox_area_sq_deg,
                   lat_divisions, lon_divisions, show_bboxes, bounds, plan, bboxes,
                   collected_bboxes, cell, pois, deduplicated_pois, filtered_pois,
                   result>>

\* Lines 338-340: a POI type outside AMENITIES raises KeyError.
QueryKeyError ==
    /\ pc = "query"
    /\ cell < Len(bboxes)
    /\ ~KnownTypes(poi_types)
    /\ calls' = Append(calls, Call(bboxes[cell + 1], FALSE))
    /\ error' = "KeyError"
    /\ pc' = "failed"
    /\ UNCHANGED <<gpx, lat_band, poi_types, max_distance_m, max_bbox_area_sq_deg,
                   lat_divisions, lon_divisions, show_bboxes, bounds, plan, bboxes,
                   collected_bboxes, cell, requests, pois, deduplicated_pois,
                   filtered_pois, result>>

\* Lines 572-574.
Dedup ==
    /\ pc = "dedup"
    /\ deduplicated_pois' = deduplicate_pois_by_id(pois)
    /\ pc' = "filter"
    /\ UNCHANGED <<calls, gpx, lat_band, poi_types, max_distance_m, max_bbox_area_sq_deg,
                   lat_divisions, lon_divisions, show_bboxes, bounds, plan, bboxes,
                   collected_bboxes, cell, requests, pois, filtered_pois, result,
                   error>>

\* Lines 576-582: filter and return.
Filter ==
    /\ pc = "filter"
    /\ filtered_pois' = filter_pois_near_track(gpx, lat_band, deduplicated_pois,
                                               max_distance_m)
    /\ result' = Returned(filtered_pois', collected_bboxes)
    /\ pc' = "done"
    /\ UNCHANGED <<calls, gpx, lat_band, poi_types, max_distance_m, max_bbox_area_sq_deg,
                   lat_divisions, lon_divisions, show_bboxes, bounds, plan, bboxes,
                   collected_bboxes, cell, requests, pois, deduplicated_pois, error>>

Next ==
    \/ BeginEmpty
    \/ BeginPlan
    \/ BeginRaise
    \/ QueryOk
    \/ QueryFail
    \/ QueryKeyError
    \/ Dedup
    \/ Filter

\* The locals before the call.
Fresh ==
    /\ bounds = None
    /\ plan = NoPlan
    /\ bboxes = <<>>
    /\ collected_bboxes = None
    /\ cell = 0
    /\ requests = 0
    /\ calls = <<>>
    /\ pois = <<>>
    /\ deduplicated_pois = <<>>
    /\ filtered_pois = <<>>
    /\ result = NoResult
    /\ error = "none"

\* A call of process_gpx_and_pois with any arguments, valid or not.  A
\* non-positive max_bbox_area_sq_deg is left out: with it the recursion ends
\* only through the rounding of doubles, which the exact arithmetic of the
\* model does not have.
Init ==
    /\ pc = "start"
    /\ gpx \in RunTracks
    /\ lat_band \in {Equator, Lat60}
    /\ poi_types \in {<<"water">>, <<"water", "castle">>}
    /\ max_distance_m \in {-FlatMetersPerUnit, 0, FlatMetersPerUnit, 2 * FlatMetersPerUnit}
    /\ max_bbox_area_sq_deg \in {2, 8}
    /\ lat_divisions \in -1..MaxDiv
    /\ lon_divisions \in -1..MaxDiv
    /\ show_bboxes \in BOOLEAN
    /\ Fresh

Spec == Init /\ [][Next]_vars

-----------------------------------------------------------------------------
(* The functions on their own *)

\* Arguments and locals that the function under study does not read.
Defaults ==
    /\ lat_band = Equator
    /\ poi_types = <<"water">>
    /\ max_distance_m = FlatMetersPerUnit
    /\ max_bbox_area_sq_deg = 8
    /\ lat_divisions = 2
    /\ lon_divisions = 2
    /\ show_bboxes = FALSE

\* deduplicate_pois_by_id on any list of raw records.
InitDedup ==
    /\ pc = "dedup"
    /\ gpx = <<Pt(0, 0)>>
    /\ Defaults
    /\ bounds = None /\ plan = NoPlan /\ bboxes = <<>> /\ collected_bboxes = None
    /\ cell = 0 /\ requests = 0 /\ calls = <<>>
    /\ pois \in SeqsOf(RawPois, 0, MaxPois)
    /\ deduplicated_pois = <<>> /\ filtered_pois = <<>>
    /\ result = NoResult /\ error = "none"

SpecDedup == InitDedup /\ [][Dedup]_vars

\* The POIs and distances given to filter_pois_near_track: a distance that a
\* grid step realises exactly, and one that it does not.
FilterPois == {Poi(1, a, b) : a \in 0..GridMax, b \in 0..GridMax}
FilterDistances == {HavMetersPerUnit, 1000}

\* filter_pois_near_track on any track, list of POIs and distance.
InitFilter ==
    /\ pc = "filter"
    /\ gpx \in SeqsOf(Grid, 1, MaxTrackLen)
    /\ lat_band \in {Equator, Lat60}
    /\ poi_types = <<"water">>
    /\ max_distance_m \in FilterDistances
    /\ max_bbox_area_sq_deg = 8
    /\ lat_divisions = 2
    /\ lon_divisions = 2
    /\ show_bboxes = FALSE
    /\ bounds = None /\ plan = NoPlan /\ bboxes = <<>> /\ collected_bboxes = None
    /\ cell = 0 /\ requests = 0 /\ calls = <<>>
    /\ pois = <<>>
    /\ deduplicated_pois \in SeqsOf(FilterPois, 0, MaxFilterPois)
    /\ filtered_pois = <<>>
    /\ result = NoResult /\ error = "none"

SpecFilter == InitFilter /\ [][Filter]_vars

\* filter_pois_near_track on tracks along a meridian and on any list of raw
\* records, repeated records and repeated identifiers included.
InitFilterOrder ==
    /\ pc = "filter"
    /\ gpx \in SeqsOf({Pt(a, 0) : a \in 0..GridMax}, 1, MaxTrackLen)
    /\ lat_band = Equator
    /\ poi_types = <<"water">>
    /\ max_distance_m \in FilterDistances
    /\ max_bbox_area_sq_deg = 8
    /\ lat_divisions = 2
    /\ lon_divisions = 2
    /\ show_bboxes = FALSE
    /\ bounds = None /\ plan = NoPlan /\ bboxes = <<>> /\ collected_bboxes = None
    /\ cell = 0 /\ requests = 0 /\ calls = <<>>
    /\ pois = <<>>
    /\ deduplicated_pois \in SeqsOf(RawPois, 0, MaxPois)
    /\ filtered_pois = <<>>
    /\ result = NoResult /\ error = "none"

SpecFilterOrder == InitFilterOrder /\ [][Filter]_vars

\* The inputs section 6 of the specification calls valid.
ValidParams ==
    /\ max_distance_m > 0
    /\ max_bbox_area_sq_deg > 0
    /\ lat_divisions >= 2
    /\ lon_divisions >= 2
    /\ KnownTypes(poi_types)

\* get_bounds and get_relevant_bboxes on any non-empty track, valid parameters.
InitPlan ==
    /\ pc = "start"
    /\ gpx \in SeqsOf(Grid, 1, MaxTrackLen)
    /\ lat_band = Equator
    /\ poi_types = <<"water">>
    /\ max_distance_m = FlatMetersPerUnit \div 2
    /\ max_bbox_area_sq_deg \in {1, 8}
    /\ lat_divisions \in 2..MaxDiv
    /\ lon_divisions \in 2..MaxDiv
    /\ show_bboxes = TRUE
    /\ Fresh

SpecPlan == InitPlan /\ [][BeginPlan]_vars

-----------------------------------------------------------------------------
(* Claims about deduplicate_pois_by_id (checked under SpecDedup) *)

\* The positions of ps that hold the first occurrence of an identifier.
FirstOccurrences(ps) ==
    {i \in DOMAIN ps : ps[i].id # NoId /\ \A j \in 1..(i - 1) : ps[j].id # ps[i].id}

\* The n-th smallest element of the set of positions K.
NthOf(K, n) == CHOOSE i \in K : Cardinality({j \in K : j <= i}) = n

\* The records of ps at its first occurrences, in the order of ps.
FirstOccurrenceList(ps) ==
    [n \in 1..Cardinality(FirstOccurrences(ps)) |-> ps[NthOf(FirstOccurrences(ps), n)]]

HasId(p) == p.id # NoId

\* C1: deduplicate_pois_by_id returns exactly the records that are the first
\* occurrence, in input order, of their non-missing identifier, in the order
\* of the input; no two records of the output share an identifier, and every
\* identifier of the input appears exactly once in the output.
C1_DedupKeepsFirstOccurrences ==
    pc = "filter" =>
        /\ deduplicated_pois = FirstOccurrenceList(pois)
        /\ \A m, n \in DOMAIN deduplicated_pois :
              m # n => deduplicated_pois[m].id # deduplicated_pois[n].id
        /\ \A i \in DOMAIN pois :
              pois[i].id # NoId =>
                 Cardinality({n \in DOMAIN deduplicated_pois :
                                 deduplicated_pois[n].id = pois[i].id}) = 1

\* An identifier comes twice, on different records, around another one: the
\* first record and the other one are returned.
C1_Witness ==
    /\ pc = "filter"
    /\ Len(pois) = 3
    /\ pois[1].id # NoId
    /\ pois[3].id = pois[1].id
    /\ pois[3] # pois[1]
    /\ pois[2].id \notin {NoId, pois[1].id}
    /\ deduplicated_pois = <<pois[1], pois[2]>>

\* C10: a record without identifier is not in the output of
\* deduplicate_pois_by_id wherever it stands in the input, deduplication
\* returns all the same, and the records kept are those kept when the
\* records without identifier are taken out of the input first.
C10_NoIdRecordsDropped ==
    /\ pc = "dedup" => ENABLED Dedup
    /\ pc = "filter" =>
          /\ error = "none"
          /\ \A n \in DOMAIN deduplicated_pois : deduplicated_pois[n].id # NoId
          /\ deduplicated_pois = FirstOccurrenceList(SelectSeq(pois, HasId))

\* A record without identifier stands between two records that are kept.
C10_Witness ==
    /\ pc = "filter"
    /\ Len(pois) = 3
    /\ pois[2].id = NoId
    /\ deduplicated_pois = <<pois[1], pois[3]>>

-----------------------------------------------------------------------------
(* Claims about filter_pois_near_track (checked under SpecFilter) *)

\* haversine(p, q) < max_distance_m, on the squares.
WithinDistance(p, q) ==
    max_distance_m > 0 /\ HaversineSq4(p, q, lat_band) < 4 * max_distance_m * max_distance_m

\* The nearest track point of p is at max_distance_m exactly, and the index
\* query returns it.
AtDistance(p) ==
    /\ \E i \in QueryBallMeters(gpx, Pt(p.lat, p.lon), max_distance_m) :
          HaversineSq4(p, gpx[i], lat_band) = 4 * max_distance_m * max_distance_m
    /\ \A i \in DOMAIN gpx : ~WithinDistance(p, gpx[i])

\* C2: every POI returned by filter_pois_near_track is at a haversine
\* distance strictly below max_distance_m of some track point; a POI whose
\* nearest track point is at max_distance_m or more is not returned.
C2_FilteredWithinDistance ==
    pc = "done" =>
        /\ \A n \in DOMAIN filtered_pois :
              \E i \in DOMAIN gpx : WithinDistance(filtered_pois[n], gpx[i])
        /\ \A n \in DOMAIN deduplicated_pois :
              (\A i \in DOMAIN gpx : ~WithinDistance(deduplicated_pois[n], gpx[i]))
                 => deduplicated_pois[n] \notin Range(filtered_pois)

\* A POI whose nearest track point, of two, is at max_distance_m exactly and
\* is returned by the index query: the POI is rejected.
C2_Witness ==
    /\ pc = "done"
    /\ Len(gpx) = 2
    /\ gpx[1] # gpx[2]
    /\ Len(deduplicated_pois) = 1
    /\ AtDistance(deduplicated_pois[1])
    /\ filtered_pois = <<>>

\* A POI strictly within max_distance_m of the second track point only is
\* returned.
C2_WitnessAccepted ==
    /\ pc = "done"
    /\ Len(gpx) = 2
    /\ Len(deduplicated_pois) = 1
    /\ ~WithinDistance(deduplicated_pois[1], gpx[1])
    /\ filtered_pois = deduplicated_pois

\* C3: every input POI at a haversine distance strictly below max_distance_m
\* of some track point is returned by filter_pois_near_track, at any
\* latitude of the track.
C3_NearPoisRetained ==
    pc = "done" =>
        \A n \in DOMAIN deduplicated_pois :
           (\E i \in DOMAIN gpx : WithinDistance(deduplicated_pois[n], gpx[i]))
              => deduplicated_pois[n] \in Range(filtered_pois)

-----------------------------------------------------------------------------
(* Claims about get_relevant_bboxes (checked under SpecPlan) *)

\* p lies in the closed rectangle b.
InBox(b, p) ==
    /\ b.south <= p.lat * b.den /\ p.lat * b.den <= b.north
    /\ b.west <= p.lon * b.den /\ p.lon * b.den <= b.east

\* The root region of the run.
Root == get_bounds(gpx, max_distance_m).list

\* k^d
RECURSIVE Power(_, _)
Power(k, d) == IF d = 0 THEN 1 ELSE k * Power(k, d - 1)

\* area(b) / k^d <= max_bbox_area_sq_deg
AreaDividedWithin(b, k, d) ==
    (b.north - b.south) * (b.east - b.west)
        <= max_bbox_area_sq_deg * b.den * b.den * Power(k, d)

\* The number of times the area of b must be divided by k to fall to
\* max_bbox_area_sq_deg or below.
DepthBound(b, k) == CHOOSE d \in 0..MaxDepth :
    /\ AreaDividedWithin(b, k, d)
    /\ \A e \in 0..(d - 1) : ~AreaDividedWithin(b, k, e)

\* C4: for the root region of get_bounds and valid parameters, every track
\* point lies in the closed rectangle of at least one cell that
\* get_relevant_bboxes returns.
C4_CellsCoverTrack ==
    (ValidParams /\ pc # "start" /\ Len(gpx) > 0) =>
        \A i \in DOMAIN gpx : \E k \in DOMAIN bboxes : InBox(bboxes[k], gpx[i])

\* Two track points, two levels of subdivision, part of the grid pruned and
\* more cells than track points kept.
C4_Witness ==
    /\ ValidParams
    /\ pc = "query"
    /\ Len(gpx) = 2
    /\ \A k \in DOMAIN bboxes : ~(InBox(bboxes[k], gpx[1]) /\ InBox(bboxes[k], gpx[2]))
    /\ plan.depth = 2
    /\ Len(bboxes) > 2
    /\ Len(bboxes) < Power(lat_divisions * lon_divisions, 2)

\* C5: for valid inputs get_relevant_bboxes returns (it does not run into the
\* recursion limit), its recursion is no deeper than the number of times the
\* area of the root region must be divided by lat_divisions * lon_divisions
\* to fall to max_bbox_area_sq_deg or below, and every cell it returns has an
\* area of at most max_bbox_area_sq_deg.
C5_PlannerTerminatesAreaCapped ==
    /\ (ValidParams /\ pc = "start" /\ Len(gpx) > 0) => Planned.err = "none"
    /\ (ValidParams /\ pc # "start" /\ Len(gpx) > 0) =>
          /\ plan.err = "none"
          /\ plan.depth <= DepthBound(Root, lat_divisions * lon_divisions)
          /\ \A k \in DOMAIN bboxes :
                (bboxes[k].north - bboxes[k].south) * (bboxes[k].east - bboxes[k].west)
                    <= max_bbox_area_sq_deg * bboxes[k].den * bboxes[k].den

\* The recursion goes as deep as the bound allows, two levels down.
C5_Witness ==
    /\ ValidParams
    /\ pc = "query"
    /\ plan.depth = 2
    /\ DepthBound(Root, lat_divisions * lon_divisions) = 2
    /\ Len(bboxes) >= 2

-----------------------------------------------------------------------------
(* Claims about process_gpx_and_pois (checked under Spec) *)

\* Some argument is outside the domain section 6 of the specification gives.
InvalidParams == ~ValidParams

\* C6: invalid parameters (lat_divisions or lon_divisions below 2,
\* non-positive max_distance_m, a POI type outside AMENITIES) are rejected
\* before planning and before any query: for such inputs
\* process_gpx_and_pois never returns a result and never reaches
\* requests.post.  (Stated for a track with points; the empty track is the
\* short-circuit of C8.  The claim's third part, no recursion without
\* progress, fails as well: see BeginRaise with lat_divisions =
\* lon_divisions = 1.)
C6_InvalidParamsRejected ==
    (InvalidParams /\ Len(gpx) > 0) =>
        /\ ~result.returned
        /\ requests = 0

\* C7: when a cell query raises (the request fails, or the POI type is not
\* a key of AMENITIES and no request is made), the run of
\* process_gpx_and_pois ends with that failure: no later cell is dispatched,
\* deduplication and filtering are not run and nothing is returned.
C7_QueryFailureAborts ==
    error \in {"RequestException", "KeyError"} =>
        /\ pc = "failed"
        /\ requests = IF error = "KeyError" THEN cell ELSE cell + 1
        /\ deduplicated_pois = <<>>
        /\ filtered_pois = <<>>
        /\ ~result.returned
        /\ ~ENABLED Next

\* The second query fails, after a first one that returned a POI and with
\* cells left to query.
C7_Witness ==
    /\ error = "RequestException"
    /\ cell = 1
    /\ Len(pois) = 1
    /\ Len(bboxes) > 2

\* C8: when the track has no point, get_bounds returns None and
\* process_gpx_and_pois ends with an empty POI list and no query cell,
\* without planning and without a call of query_overpass.
C8_EmptyTrackShortCircuit ==
    Len(gpx) = 0 =>
        /\ get_bounds(gpx, max_distance_m) = None
        /\ pc \in {"start", "done"}
        /\ pc = "start" => ENABLED BeginEmpty
        /\ plan = NoPlan
        /\ bboxes = <<>>
        /\ requests = 0
        /\ error = "none"
        /\ pc = "done" =>
              /\ result.returned
              /\ result.pois = <<>>
              /\ result.bboxes.list = <<>>

\* The run on an empty track has returned.
C8_Witness ==
    /\ Len(gpx) = 0
    /\ pc = "done"
    /\ result.returned
    /\ requests = 0

\* C9 as claimed: with show_bboxes false the returned cell list is None on
\* every return path, the empty-track short-circuit included; with
\* show_bboxes true it is the planned cell sequence.
C9_Original ==
    result.returned =>
        IF show_bboxes THEN result.bboxes = Some(plan.cells)
        ELSE result.bboxes = None

\* C9 as amended: on the return that follows planning the returned cell list
\* is None when show_bboxes is false and the planned cell sequence, in
\* planning order, when it is true; the empty-track short-circuit returns an
\* empty list in both cases.
C9_CollectedCells ==
    result.returned =>
        IF Len(gpx) = 0 THEN result.bboxes = Some(<<>>)
        ELSE IF show_bboxes THEN result.bboxes = Some(Planned.cells)
        ELSE result.bboxes = None

\* A run that planned several cells without show_bboxes has returned None.
C9_Witness ==
    /\ result.returned
    /\ ~show_bboxes
    /\ Len(bboxes) >= 2
    /\ result.bboxes = None

-----------------------------------------------------------------------------
(* Claims about get_bounds (checked under Spec, which calls it with every *)
(* max_distance_m that process_gpx_and_pois accepts)                      *)

\* The edges of b are the extreme coordinates of the track moved outwards
\* by max_d * (1/111320) * 1.5, which is 3 * max_d / (2 * 890) grid units.
EdgesAtMargin(b, points, max_d) ==
    LET den == 2 * FlatMetersPerUnit
        lats == {points[i].lat : i \in DOMAIN points}
        lons == {points[i].lon : i \in DOMAIN points}
    IN /\ b.south * den = b.den * (den * MinOf(lats) - 3 * max_d)
       /\ b.north * den = b.den * (den * MaxOf(lats) + 3 * max_d)
       /\ b.west * den = b.den * (den * MinOf(lons) - 3 * max_d)
       /\ b.east * den = b.den * (den * MaxOf(lons) + 3 * max_d)

\* south < north and west < east
Ordered(b) == b.south < b.north /\ b.west < b.east

\* C11: for a track with at least one point, get_bounds returns the box
\* whose edges are the extreme latitudes and longitudes of the track moved
\* outwards by max_distance_m * (1/111320) * 1.5, and that box always has
\* south < north and west < east.
C11_BoundsExpandedAndOrdered ==
    (pc # "start" /\ Len(gpx) > 0) =>
        /\ ~bounds.is_none
        /\ EdgesAtMargin(bounds.list, gpx, max_distance_m)
        /\ Ordered(bounds.list)

\* What holds of the box: its edges are at the margin whatever
\* max_distance_m is, and it is ordered when max_distance_m is positive.
BoundsOrderedWhenPositive ==
    (pc # "start" /\ Len(gpx) > 0) =>
        /\ ~bounds.is_none
        /\ EdgesAtMargin(bounds.list, gpx, max_distance_m)
        /\ max_distance_m > 0 => Ordered(bounds.list)

-----------------------------------------------------------------------------
(* Claims about the order of the steps of process_gpx_and_pois (checked   *)
(* under Spec)                                                            *)

\* s is an initial part of t.
IsPrefix(s, t) == Len(s) <= Len(t) /\ SubSeq(t, 1, Len(s)) = s

\* What every state of a run satisfies: no call before planning; the k-th
\* call is for the k-th planned cell; deduplication and filtering have not
\* run while cells remain; they ran on the merged and on the deduplicated
\* list.
StepsInOrder ==
    /\ pc = "start" => calls = <<>>
    /\ Len(calls) = 1 => plan = Planned
    /\ calls # <<>> =>
          /\ bboxes = plan.cells
          /\ Len(calls) <= Len(bboxes)
          /\ \A k \in DOMAIN calls : calls[k].bbox = bboxes[k]
    /\ pc = "query" => Len(calls) = cell /\ cell < Len(bboxes)
    /\ pc \in {"start", "query", "failed"} =>
          deduplicated_pois = <<>> /\ filtered_pois = <<>>
    /\ pc \in {"dedup", "filter", "done"} /\ Len(gpx) > 0 =>
          /\ Len(calls) = Len(bboxes)
          /\ \A k \in DOMAIN calls : calls[k].returned
    /\ pc = "dedup" => filtered_pois = <<>>
    /\ pc \in {"filter", "done"} /\ Len(gpx) > 0 =>
          deduplicated_pois = deduplicate_pois_by_id(pois)
    /\ pc = "done" /\ Len(gpx) > 0 =>
          /\ filtered_pois = filter_pois_near_track(gpx, lat_band,
                                  deduplicated_pois, max_distance_m)
          /\ result.pois = filtered_pois

\* What every step of a run satisfies: the planned list is written once;
\* the raw list changes only with a call that returns, which appends to it.
StepKeepsOrder ==
    /\ pc # "start" => plan' = plan /\ bboxes' = bboxes
    /\ calls' = calls => pois' = pois
    /\ calls' # calls =>
          /\ Len(calls') = Len(calls) + 1
          /\ SubSeq(calls', 1, Len(calls)) = calls
          /\ IsPrefix(pois, pois')
          /\ ~calls'[Len(calls')].returned => pois' = pois

\* C12: in a run of process_gpx_and_pois no query is dispatched before the
\* cell list is planned, and the list is not changed afterwards; the k-th
\* call of query_overpass is for the k-th cell that get_relevant_bboxes
\* produced, so that a run that completes has dispatched each cell exactly
\* once, in that order; each result is appended to the raw list when its
\* call returns, so the raw list is in the order of the calls;
\* deduplication starts only when the result of the last cell is merged,
\* and filtering only on the deduplicated list.
C12_PlanThenQueriesInOrder == [](StepsInOrder) /\ [][StepKeepsOrder]_vars

\* A completed run over several distinct cells, in which two calls
\* returned different elements.
C12_Witness ==
    /\ pc = "done"
    /\ Len(bboxes) >= 3
    /\ bboxes[1] # bboxes[2]
    /\ Len(calls) = Len(bboxes)
    /\ Len(pois) = 2
    /\ pois[1] # pois[2]

-----------------------------------------------------------------------------
(* Claims about the pruning of get_relevant_bboxes (checked under SpecPlan) *)

\* Some track point is in the rectangle of b dilated by 5% of its height
\* and width on each side.
TrackInDilated(b) == \E i \in DOMAIN gpx : InDilated(b, gpx[i])

\* The sub-boxes of the regions that the planning subdivided: with the root,
\* every region get_relevant_bboxes was called on.
SubRegions ==
    UNION {Range(subdivide_bbox(plan.split[k], lat_divisions, lon_divisions)) :
             k \in DOMAIN plan.split}

\* C13: a region whose 5%-dilated rectangle contains no track point
\* contributes nothing to the list get_relevant_bboxes returns and is not
\* subdivided, whether or not its area is within max_bbox_area_sq_deg (the
\* pruning test comes before the area test); every cell of the returned
\* list and every region that was subdivided has a track point in its
\* dilated rectangle.
C13_PrunedBeforeAreaTest ==
    (pc # "start" /\ Len(gpx) > 0) =>
        /\ \A k \in DOMAIN bboxes : TrackInDilated(bboxes[k])
        /\ \A k \in DOMAIN plan.split : TrackInDilated(plan.split[k])
        /\ \A r \in SubRegions \cup {Root} :
              ~TrackInDilated(r) =>
                  /\ r \notin Range(bboxes)
                  /\ r \notin Range(plan.split)
                  /\ get_relevant_bboxes(r, gpx, max_bbox_area_sq_deg,
                                         lat_divisions, lon_divisions, 1)
                        = PlanOk(<<>>, 1)

\* The planning subdivided twice and dropped two regions without a track
\* point in their dilated rectangle: one small enough to be a cell, one
\* that would have been subdivided.
C13_Witness ==
    /\ pc = "query"
    /\ plan.depth = 2
    /\ \E r \in SubRegions :
          /\ ~TrackInDilated(r)
          /\ AreaWithin(r, max_bbox_area_sq_deg)
          /\ r \notin Range(bboxes)
    /\ \E r \in SubRegions :
          /\ ~TrackInDilated(r)
          /\ ~AreaWithin(r, max_bbox_area_sq_deg)
          /\ r \notin Range(plan.split)

-----------------------------------------------------------------------------
(* Claims about the order and the number of the POIs that                 *)
(* filter_pois_near_track returns (checked under SpecFilterOrder)         *)

\* s[i..] is t[j..] with some elements left out: the elements of s are
\* elements of t at increasing positions, each position used once.
RECURSIVE IsSubsequenceFrom(_, _, _, _)
IsSubsequenceFrom(s, t, i, j) ==
    IF i > Len(s) THEN TRUE
    ELSE IF j > Len(t) THEN FALSE
    ELSE IF s[i] = t[j] THEN IsSubsequenceFrom(s, t, i + 1, j + 1)
    ELSE IsSubsequenceFrom(s, t, i, j + 1)

IsSubsequence(s, t) == IsSubsequenceFrom(s, t, 1, 1)

\* No two elements of ps have the same identifier.
DistinctIds(ps) ==
    \A i \in DOMAIN ps : \A j \in DOMAIN ps : ps[i].id = ps[j].id => i = j

\* C14: the list filter_pois_near_track returns is its input with some
\* POIs left out: same order, each input POI at most once, however many
\* track points are in range of it; when the identifiers of the input are
\* pairwise distinct, as those of a deduplicated list are, so are the
\* identifiers of the list that process_gpx_and_pois returns.
C14_FilteredIsSubsequence ==
    pc = "done" =>
        /\ IsSubsequence(filtered_pois, deduplicated_pois)
        /\ DistinctIds(deduplicated_pois) => DistinctIds(filtered_pois)
        /\ result.pois = filtered_pois

\* Three POIs: the first with two track points in range, the second out
\* of range, the third in range; the first and the third are returned, in
\* that order.
C14_Witness ==
    /\ pc = "done"
    /\ Len(gpx) = 2
    /\ Len(deduplicated_pois) = 3
    /\ WithinDistance(deduplicated_pois[1], gpx[1])
    /\ WithinDistance(deduplicated_pois[1], gpx[2])
    /\ \A i \in DOMAIN gpx : ~WithinDistance(deduplicated_pois[2], gpx[i])
    /\ deduplicated_pois[1].id # deduplicated_pois[3].id
    /\ filtered_pois = <<deduplicated_pois[1], deduplicated_pois[3]>>

\* The list a run of process_gpx_and_pois returns has pairwise distinct
\* identifiers and is the deduplicated list with some POIs left out.
FinalIdsDistinct ==
    (result.returned /\ Len(gpx) > 0) =>
        /\ DistinctIds(result.pois)
        /\ IsSubsequence(result.pois, deduplicated_pois)
        /\ IsSubsequence(deduplicated_pois, pois)

====
